---- MODULE Spec2Model ----
(***************************************************************************)
(* Tetra3d: the BoundingCapsule volume (boundsCapsule.go), its pairwise    *)
(* dispatch and its sweep query, and the DAE mesh loader (dae.go).         *)
(*                                                                         *)
(* float64 lengths are kept as exact integers counted in half units, so    *)
(* that Height / 2 is exact; the one float64 effect the code can reach     *)
(* with finite inputs, 0/0 = NaN in ClosestPoint, is kept as the value     *)
(* NaNVec.  A vector.Vector is a 3-tuple.  Rotations are the axis-aligned  *)
(* ones, so a node's up vector is one of the coordinate axes.              *)
(***************************************************************************)
EXTENDS Integers, Sequences, FiniteSets, TLC

VARIABLES capsules, ret, dae

vars == <<capsules, ret, dae>>

----------------------------------------------------------------------------
(* Bounds of the model *)

MaxHeight == 4
MaxRadius == 2
MaxCoord == 3

\* the length 1.0, in half units
One == 2

Heights == {One * h : h \in -1..MaxHeight}
Radii == {One * r : r \in 0..MaxRadius}

\* the two BoundingCapsule objects of the model, by address
CapsuleIds == {1, 2}

----------------------------------------------------------------------------
(* github.com/kvartborg/vector and math, on exact values *)

NaNVec == <<>>

IsNaN(v) == v = NaNVec

Abs(x) == IF x < 0 THEN -x ELSE x

Max(a, b) == IF a > b THEN a ELSE b

Min(a, b) == IF a < b THEN a ELSE b

Add(a, b) ==
    IF IsNaN(a) \/ IsNaN(b) THEN NaNVec
    ELSE <<a[1] + b[1], a[2] + b[2], a[3] + b[3]>>

Sub(a, b) ==
    IF IsNaN(a) \/ IsNaN(b) THEN NaNVec
    ELSE <<a[1] - b[1], a[2] - b[2], a[3] - b[3]>>

Scale(a, s) == <<a[1] * s, a[2] * s, a[3] * s>>

Invert(a) == IF IsNaN(a) THEN NaNVec ELSE <<-a[1], -a[2], -a[3]>>

\* a[0]*b[0] + a[1]*b[1] + a[2]*b[2]
dot(a, b) == a[1] * b[1] + a[2] * b[2] + a[3] * b[3]

\* Magnitude() is the square root of MagnitudeSq; the model keeps the exact
\* square and compares squares.  -1 stands for the magnitude of a NaN vector.
MagnitudeSq(v) == IF IsNaN(v) THEN -1 ELSE dot(v, v)

\* Magnitude(v) < r, for a magnitude given by its square (false on NaN)
MagLess(sq, r) == sq >= 0 /\ r > 0 /\ sq < r * r

\* the integer part of the square root
Sqrt(n) == CHOOSE k \in 0..n : k * k <= n /\ n < (k + 1) * (k + 1)

AxisX == <<1, 0, 0>>
AxisY == <<0, 1, 0>>
AxisZ == <<0, 0, 1>>
Zero3 == <<0, 0, 0>>

----------------------------------------------------------------------------
(* Node: the transform provider of a capsule.  parent = 0 is no parent,    *)
(* otherwise the id of the capsule whose node is the parent.  moved is the *)
(* world-space displacement a sweep query applies for its duration.        *)

NewNode ==
    [pos |-> Zero3, up |-> AxisY, scale |-> <<1, 1, 1>>, parent |-> 0,
     moved |-> Zero3]

LocalScale(node) == node.scale

Mul3(a, b) == <<a[1] * b[1], a[2] * b[2], a[3] * b[3]>>

RECURSIVE WorldScale(_, _)
WorldScale(cs, node) ==
    IF node.parent = 0 THEN node.scale
    ELSE Mul3(WorldScale(cs, cs[node.parent].Node), node.scale)

RECURSIVE WorldPosition(_, _)
WorldPosition(cs, node) ==
    Add(node.moved,
        IF node.parent = 0 THEN node.pos
        ELSE Add(WorldPosition(cs, cs[node.parent].Node),
                 Mul3(WorldScale(cs, cs[node.parent].Node), node.pos)))

\* WorldRotation().Up()
WorldUp(cs, node) == node.up

\* Node.Clone(): the local transform, under no parent
CloneNode(node) == [node EXCEPT !.parent = 0]

----------------------------------------------------------------------------
(* BoundingCapsule *)

\* NewBoundingCapsule with the clamp the wrong way round (math.Min)
NewBoundingCapsuleMin(height, radius) ==
    [Node |-> NewNode,
     Height |-> Min(radius, height),
     Radius |-> radius]

NewBoundingCapsule(height, radius) ==
    [Node |-> NewNode,
     Height |-> Max(radius, height),
     Radius |-> radius]

Clone(capsule) ==
    LET clone == NewBoundingCapsule(capsule.Height, capsule.Radius)
    IN [clone EXCEPT !.Node = CloneNode(capsule.Node)]

\* WorldRadius is Radius times the largest |component| of the node's
\* LocalScale.  A capsule made by NewBoundingCapsule or Clone always has a
\* Node, so the maxScale := 1.0 default is never the result.
WorldRadius(capsule) ==
    LET scale == LocalScale(capsule.Node)
        maxScale == Max(Max(Abs(scale[1]), Abs(scale[2])), Abs(scale[3]))
    IN capsule.Radius * maxScale

\* x / 2 on float64 is exact; lengths are even counts of half units
Half(x) == x \div 2

\* segment.Scale(t) for the quotient t = num / den, den > 0
ScaleQuot(v, num, den) ==
    <<(v[1] * num) \div den, (v[2] * num) \div den, (v[3] * num) \div den>>

\* ClosestPoint on the full-height segment from Bottom to Top (the radius
\* not taken off the ends)
ClosestPointFull(cs, capsule, point) ==
    LET up == WorldUp(cs, capsule.Node)
        start == Add(WorldPosition(cs, capsule.Node), Scale(up, Half(-capsule.Height)))
        end == Add(WorldPosition(cs, capsule.Node), Scale(up, Half(capsule.Height)))
        segment == Sub(end, start)
        num == dot(Sub(point, start), segment)
        den == dot(segment, segment)
    IN  IF den = 0
        THEN NaNVec
        ELSE LET tnum == Max(Min(num, den), 0)
             IN Add(start, ScaleQuot(segment, tnum, den))

ClosestPoint(cs, capsule, point) ==
    LET up == WorldUp(cs, capsule.Node)
        start == Add(WorldPosition(cs, capsule.Node),
                     Scale(up, Half(-capsule.Height) + capsule.Radius))
        end == Add(WorldPosition(cs, capsule.Node),
                   Scale(up, Half(capsule.Height) - capsule.Radius))
        segment == Sub(end, start)
        num == dot(Sub(point, start), segment)
        den == dot(segment, segment)
    IN  IF den = 0
        THEN NaNVec     \* t = 0/0 is NaN, Max(Min(NaN, 1), 0) is NaN
        ELSE LET tnum == Max(Min(num, den), 0)
             IN Add(start, ScaleQuot(segment, tnum, den))

PointInside(cs, capsule, point) ==
    MagLess(MagnitudeSq(Sub(ClosestPoint(cs, capsule, point), point)),
            WorldRadius(capsule))

lineTop(cs, capsule) ==
    LET up == WorldUp(cs, capsule.Node)
    IN Add(WorldPosition(cs, capsule.Node),
           Scale(up, Half(capsule.Height) - capsule.Radius))

Top(cs, capsule) ==
    LET up == WorldUp(cs, capsule.Node)
    IN Add(WorldPosition(cs, capsule.Node), Scale(up, Half(capsule.Height)))

lineBottom(cs, capsule) ==
    LET up == WorldUp(cs, capsule.Node)
    IN Add(WorldPosition(cs, capsule.Node),
           Scale(up, Half(-capsule.Height) + capsule.Radius))

\* Bottom on the Top side of the node (the sign of Height lost)
BottomUnsigned(cs, capsule) ==
    LET up == WorldUp(cs, capsule.Node)
    IN Add(WorldPosition(cs, capsule.Node), Scale(up, Half(capsule.Height)))

Bottom(cs, capsule) ==
    LET up == WorldUp(cs, capsule.Node)
    IN Add(WorldPosition(cs, capsule.Node), Scale(up, Half(-capsule.Height)))

----------------------------------------------------------------------------
(* The other bounding objects of the scene.  A BoundingObject value is the *)
(* address of an object; 0 is the nil interface value.  The capsules are   *)
(* 1 and 2; the rest of the scene is fixed.                                *)

NilObject == 0

Scene ==
    [i \in 3..9 |->
        CASE i = 3 -> [type |-> "BoundingSphere", pos |-> Zero3, radius |-> One]
          [] i = 4 -> [type |-> "BoundingSphere",
                       pos |-> <<2 * One, One, 0>>, radius |-> One]
          [] i = 5 -> [type |-> "BoundingSphere",
                       pos |-> <<0, 4 * One, One>>, radius |-> 2 * One]
          [] i = 6 -> [type |-> "BoundingAABB",
                       pos |-> <<-2 * One, 0, 0>>, half |-> <<One, One, One>>]
          [] i = 7 -> [type |-> "BoundingTriangles",
                       tris |-> << [verts |-> << <<One, 0, 0>>, <<3 * One, 0, 0>>,
                                                 <<One, 0, 2 * One>> >>,
                                    normal |-> <<0, One, 0>>],
                                   [verts |-> << <<0, One, One>>, <<0, 3 * One, One>>,
                                                 <<0, One, 3 * One>> >>,
                                    normal |-> <<-One, 0, 0>>] >>]
          [] i = 8 -> [type |-> "BoundingTriangles", tris |-> <<>>]
          [] i = 9 -> [type |-> "Model"]]

SceneIds == DOMAIN Scene

Objects == {NilObject} \cup CapsuleIds \cup SceneIds

\* the dynamic type of a BoundingObject value
TypeOf(cs, other) ==
    IF other = NilObject THEN "nil"
    ELSE IF other \in CapsuleIds THEN "BoundingCapsule"
    ELSE Scene[other].type

----------------------------------------------------------------------------
(* Collision results.  A *Collision is <<>> when nil and <<c>> otherwise.  *)

NilCollision == <<>>

Sign(x) == IF x < 0 THEN -1 ELSE IF x > 0 THEN 1 ELSE 0

\* v.Unit().Scale(k), rounded toward zero; the zero vector stays zero
UnitScale(v, k) ==
    LET len == Sqrt(dot(v, v))
        c(x) == Sign(x * k) * (Abs(x * k) \div len)
    IN IF len = 0 THEN Zero3 ELSE <<c(v[1]), c(v[2]), c(v[3])>>

NewIntersection(mtv, normal, contact) ==
    [MTV |-> mtv, Normal |-> normal, ContactPoint |-> contact]

NewCollision(object, intersections) ==
    << [CollidedObject |-> object, Intersections |-> intersections] >>

----------------------------------------------------------------------------
(* The pairwise routines.  The capsule's segment is axis-aligned, so the   *)
(* closest points of a segment and a segment or a box are found axis by    *)
(* axis on intervals.                                                      *)

\* the point of [aLo, aHi] closest to [bLo, bHi]
NearIn(aLo, aHi, bLo, bHi) ==
    IF aHi < bLo THEN aHi ELSE IF bHi < aLo THEN aLo ELSE Max(aLo, bLo)

\* the point of the box [aLo, aHi] closest to the box [bLo, bHi]
NearPoint(aLo, aHi, bLo, bHi) ==
    <<NearIn(aLo[1], aHi[1], bLo[1], bHi[1]),
      NearIn(aLo[2], aHi[2], bLo[2], bHi[2]),
      NearIn(aLo[3], aHi[3], bLo[3], bHi[3])>>

Lo3(a, b) == <<Min(a[1], b[1]), Min(a[2], b[2]), Min(a[3], b[3])>>

Hi3(a, b) == <<Max(a[1], b[1]), Max(a[2], b[2]), Max(a[3], b[3])>>

\* a collision of two round volumes: p is the point of the first nearest to
\* q, the point of the second nearest to the first; the MTV and the normal
\* run from p to q, the contact point is on the surface at contact
RoundCollision(object, p, q, rsum, contact) ==
    IF ~MagLess(MagnitudeSq(Sub(q, p)), rsum) THEN NilCollision
    ELSE NewCollision(object,
            << NewIntersection(
                  UnitScale(Sub(q, p), rsum - Sqrt(MagnitudeSq(Sub(q, p)))),
                  UnitScale(Sub(q, p), One),
                  contact) >>)

\* the closest points of two boxes [aLo, aHi] and [bLo, bHi], the second on
\* a volume of radius rb
SegmentsCollision(object, aLo, aHi, bLo, bHi, ra, rb) ==
    RoundCollision(object,
                   NearPoint(aLo, aHi, bLo, bHi), NearPoint(bLo, bHi, aLo, aHi),
                   ra + rb,
                   Sub(NearPoint(bLo, bHi, aLo, aHi),
                       UnitScale(Sub(NearPoint(bLo, bHi, aLo, aHi),
                                     NearPoint(aLo, aHi, bLo, bHi)), rb)))

\* 4.1: closest pair of points of the two segments; collision when their
\* distance is below the sum of the radii
btCapsuleCapsule(cs, a, b) ==
    SegmentsCollision(b,
        Lo3(lineBottom(cs, cs[a]), lineTop(cs, cs[a])),
        Hi3(lineBottom(cs, cs[a]), lineTop(cs, cs[a])),
        Lo3(lineBottom(cs, cs[b]), lineTop(cs, cs[b])),
        Hi3(lineBottom(cs, cs[b]), lineTop(cs, cs[b])),
        WorldRadius(cs[a]), WorldRadius(cs[b]))

\* the sphere at centre with the capsule whose segment is nearest to it at
\* closest: the MTV and the normal run from the capsule to the sphere, the
\* contact point is on the capsule
SphereCapsuleCollision(c, centre, radius, closest, capsuleRadius) ==
    RoundCollision(c, closest, centre, radius + capsuleRadius,
                   Add(closest, UnitScale(Sub(centre, closest), capsuleRadius)))

\* 4.2, from the sphere's side: closest point of the capsule's segment to the
\* sphere centre; collision when its distance is below the sum of the radii
btSphereCapsule(cs, s, c) ==
    SphereCapsuleCollision(c, Scene[s].pos, Scene[s].radius,
                           ClosestPoint(cs, cs[c], Scene[s].pos),
                           WorldRadius(cs[c]))

\* the axis of the largest |component| of v, as a signed unit axis
MainAxis(v) ==
    IF Abs(v[1]) >= Abs(v[2]) /\ Abs(v[1]) >= Abs(v[3]) /\ v[1] # 0
    THEN Scale(AxisX, Sign(v[1]))
    ELSE IF Abs(v[2]) >= Abs(v[3]) /\ v[2] # 0
    THEN Scale(AxisY, Sign(v[2]))
    ELSE IF v[3] # 0 THEN Scale(AxisZ, Sign(v[3]))
    ELSE AxisY

\* the capsule of radius r whose segment is nearest to the box at pS, pB
\* being the point of the box nearest to the segment
BoxCollision(b, pS, pB, r) ==
    IF ~MagLess(MagnitudeSq(Sub(pS, pB)), r) THEN NilCollision
    ELSE NewCollision(b,
            << NewIntersection(
                  Scale(MainAxis(Sub(pS, pB)),
                        r - Abs(dot(Sub(pS, pB), MainAxis(Sub(pS, pB))))),
                  Scale(MainAxis(Sub(pS, pB)), One),
                  pB) >>)

SegmentBoxCollision(b, sLo, sHi, bLo, bHi, r) ==
    BoxCollision(b, NearPoint(sLo, sHi, bLo, bHi), NearPoint(bLo, bHi, sLo, sHi), r)

\* 4.3: the segment point closest to the box; collision when its distance to
\* the box is below the capsule's radius; the MTV lies on one axis
btCapsuleAABB(cs, c, b) ==
    SegmentBoxCollision(b,
        Lo3(lineBottom(cs, cs[c]), lineTop(cs, cs[c])),
        Hi3(lineBottom(cs, cs[c]), lineTop(cs, cs[c])),
        Sub(Scene[b].pos, Scene[b].half), Add(Scene[b].pos, Scene[b].half),
        WorldRadius(cs[c]))

\* the index of the least of three squared distances, the first of equals
LeastOf(d) ==
    CHOOSE i \in 1..3 : \A j \in 1..3 : d[i] < d[j] \/ (d[i] = d[j] /\ i <= j)

\* the vertex of the triangle nearest to the capsule's segment
NearestVertex(cs, capsule, tri) ==
    tri.verts[LeastOf([i \in 1..3 |->
        MagnitudeSq(Sub(ClosestPoint(cs, capsule, tri.verts[i]), tri.verts[i]))])]

\* the test of a triangle at its vertex v, closest being the segment point
\* nearest to v: whether it is within the radius r, and its Intersection
VertexTest(v, closest, r, normal) ==
    [hit |-> MagLess(MagnitudeSq(Sub(closest, v)), r),
     inter |-> NewIntersection(
                    IF MagLess(MagnitudeSq(Sub(closest, v)), r)
                    THEN UnitScale(Sub(closest, v),
                                   r - Sqrt(MagnitudeSq(Sub(closest, v))))
                    ELSE Zero3,
                    normal, v)]

TriangleTestAt(cs, capsule, tri, v) ==
    VertexTest(v, ClosestPoint(cs, capsule, v), WorldRadius(capsule), tri.normal)

TriangleTest(cs, capsule, tri) ==
    TriangleTestAt(cs, capsule, tri, NearestVertex(cs, capsule, tri))

IsHit(t) == t.hit

IntersectionsOf(hits) == [k \in 1..Len(hits) |-> hits[k].inter]

TriangleIntersections(cs, capsule, tris) ==
    IntersectionsOf(
        SelectSeq([i \in 1..Len(tris) |-> TriangleTest(cs, capsule, tris[i])], IsHit))

\* none when no Intersection was produced
CollisionOf(object, inters) ==
    IF Len(inters) = 0 THEN NilCollision ELSE NewCollision(object, inters)

\* 4.4: one Intersection per triangle within the capsule's radius, none
\* merged.  Each triangle is tested at its vertices.
btCapsuleTriangles(cs, c, t) ==
    CollisionOf(t, TriangleIntersections(cs, cs[c], Scene[t].tris))

----------------------------------------------------------------------------
(* BoundingCapsule.Colliding / Collision.  A call yields whether it        *)
(* panicked, the pairwise routine it ran and its return value.             *)

Outcome(panic, routine, val) == [panic |-> panic, routine |-> routine, val |-> val]

\* the loop of Collision writing MTV to a copy of the Intersection: only
\* the in-place inversion of Normal is kept
InvertIntersectionNormalOnly(inter) ==
    [inter EXCEPT !.Normal = Invert(@)]

InvertIntersection(inter) ==
    [inter EXCEPT !.MTV = Invert(@), !.Normal = Invert(@)]

\* case *BoundingSphere, after the call of btSphereCapsule
SphereCase(intersection, otherBounds) ==
    IF intersection # NilCollision
    THEN << [intersection[1] EXCEPT
               !.Intersections = [k \in DOMAIN @ |-> InvertIntersection(@[k])],
               !.CollidedObject = otherBounds] >>
    ELSE intersection

\* the type switch of Collision, with the panic below it
TypeSwitch(cs, capsule, other) ==
    CASE TypeOf(cs, other) = "BoundingCapsule" ->
            Outcome(FALSE, "btCapsuleCapsule", btCapsuleCapsule(cs, capsule, other))
      [] TypeOf(cs, other) = "BoundingSphere" ->
            Outcome(FALSE, "btSphereCapsule",
                    SphereCase(btSphereCapsule(cs, other, capsule), other))
      [] TypeOf(cs, other) = "BoundingAABB" ->
            Outcome(FALSE, "btCapsuleAABB", btCapsuleAABB(cs, capsule, other))
      [] TypeOf(cs, other) = "BoundingTriangles" ->
            Outcome(FALSE, "btCapsuleTriangles", btCapsuleTriangles(cs, capsule, other))
      [] OTHER -> Outcome(TRUE, "", NilCollision)

\* Collision without the identity test
CollisionNoIdentity(cs, capsule, other) == TypeSwitch(cs, capsule, other)

\* the default case returning nil
Unpanicked(out) == IF out.panic THEN Outcome(FALSE, "", NilCollision) ELSE out

\* Collision returning nil for a partner of no known type
CollisionNoPanic(cs, capsule, other) ==
    IF other = capsule THEN Outcome(FALSE, "", NilCollision)
    ELSE Unpanicked(TypeSwitch(cs, capsule, other))

Collision(cs, capsule, other) ==
    IF other = capsule THEN Outcome(FALSE, "", NilCollision)
    ELSE TypeSwitch(cs, capsule, other)

\* Collision(other) != nil, for the outcome c of Collision(other)
NotNil(c) == Outcome(c.panic, c.routine, c.val # NilCollision)

IsNil(c) == Outcome(c.panic, c.routine, ~c.panic /\ c.val = NilCollision)

\* Colliding comparing with == nil
CollidingNegated(cs, capsule, other) == IsNil(Collision(cs, capsule, other))

Colliding(cs, capsule, other) == NotNil(Collision(cs, capsule, other))

----------------------------------------------------------------------------
(* The sweep query, 4.5: the capsule is tested at its displaced position   *)
(* against each candidate but itself, and the Collisions are returned by   *)
(* ascending distance from its current position to their contact point.    *)

Displaced(cs, capsule, d) == [cs EXCEPT ![capsule].Node.moved = d]

\* squared distance from the capsule's current position to the contact point
ContactDistSq(cs, capsule, collision) ==
    MagnitudeSq(Sub(collision.Intersections[1].ContactPoint,
                    WorldPosition(cs, cs[capsule].Node)))

\* a slice value: nil, or a (possibly empty) list
NilSlice == [isNil |-> TRUE, list |-> <<>>]

Slice(list) == [isNil |-> FALSE, list |-> list]

\* the place of element i in ascending order of key, equal keys in order
Rank(key, i) ==
    Cardinality({j \in 1..Len(key) : key[j] < key[i] \/ (key[j] = key[i] /\ j <= i)})

\* list in ascending order of key, equal keys in their order in list
SortByKey(list, key) ==
    [k \in 1..Len(list) |-> list[CHOOSE i \in 1..Len(list) : Rank(key, i) = k]]

\* the Collisions sorted by the distance to their contact point
SortCollisions(cs, capsule, list) ==
    SortByKey(list, [i \in 1..Len(list) |-> ContactDistSq(cs, capsule, list[i])])

IsPanic(out) == out.panic

IsCollision(out) == out.val # NilCollision

\* the values of the outcomes that are Collisions
CollisionsOf(hits) == [i \in 1..Len(hits) |-> hits[i].val[1]]

\* the result of a sweep from the outcomes of the pairwise tests
SweepResult(cs, capsule, outs) ==
    IF Len(SelectSeq(outs, IsPanic)) > 0 THEN Outcome(TRUE, "", NilSlice)
    ELSE Outcome(FALSE, "",
            Slice(SortCollisions(cs, capsule,
                                 CollisionsOf(SelectSeq(outs, IsCollision)))))

\* the pairwise tests of the capsule, moved by d, against the candidates
SweepOutcomes(moved, capsule, candidates) ==
    [i \in 1..Len(candidates) |-> Collision(moved, capsule, candidates[i])]

commonCollisionTest(cs, capsule, dx, dy, dz, others) ==
    SweepResult(cs, capsule,
        SweepOutcomes(Displaced(cs, capsule, <<dx, dy, dz>>), capsule,
                      SelectSeq(others, LAMBDA o : o # capsule)))

\* a sweep returning a nil slice when nothing collides
NilIfEmpty(out) ==
    IF ~out.panic /\ Len(out.val.list) = 0 THEN Outcome(FALSE, "", NilSlice) ELSE out

CollisionTestNilIfEmpty(cs, capsule, dx, dy, dz, others) ==
    NilIfEmpty(commonCollisionTest(cs, capsule, dx, dy, dz, others))

CollisionTest(cs, capsule, dx, dy, dz, others) ==
    commonCollisionTest(cs, capsule, dx, dy, dz, others)

\* CollisionTestVec passing moveVec[1], moveVec[0], moveVec[2]
CollisionTestVecSwapped(cs, capsule, moveVec, others) ==
    commonCollisionTest(cs, capsule, moveVec[2], moveVec[1], moveVec[3], others)

CollisionTestVec(cs, capsule, moveVec, others) ==
    commonCollisionTest(cs, capsule, moveVec[1], moveVec[2], moveVec[3], others)

----------------------------------------------------------------------------
(* Inputs of the calls *)

Positions == {<<0, One * y, 0>> : y \in {0, MaxCoord}}

Ups == {AxisY, AxisX}

Scales == {<<1, 1, 1>>, <<-2, 1, 1>>}

Points == {Zero3, <<One, 0, 0>>, <<0, One, 0>>, <<0, 3 * One, One>>}

\* the inputs of Spec
FewHeights == {0, MaxHeight * One}

FewRadii == {One, 2 * One}

FewPoints == {Zero3, <<One, 0, 0>>}

Deltas == {Zero3, <<0, -One, 0>>}

Spheres == {i \in SceneIds : Scene[i].type = "BoundingSphere"}

\* the sequences that list every element of S once
Perms(S) == {p \in [1..Cardinality(S) -> S] : \A i, j \in DOMAIN p : p[i] = p[j] => i = j}

SweepDeltas == Deltas \cup {<<3 * One, 0, 0>>}

MaxOthers == 3

\* the candidate lists of a sweep by capsule self: up to MaxOthers of the
\* spheres and the capsule itself, each once, in every order; a list with a
\* box and a mesh; lists with an object of no bounding type or nil
OthersLists(self) ==
    LET C == Spheres \cup {self}
    IN  UNION {Perms(S) : S \in {T \in SUBSET C : Cardinality(T) <= MaxOthers}}
        \cup {<<6, 7>>, <<4, 9>>, <<NilObject>>}

FewLists(self) == {<<>>, <<self>>, <<3, 4, 5>>, <<6, 3 - self, 7>>, <<4, 9>>}

----------------------------------------------------------------------------
(* The DAE loader (dae.go).  A string is the sequence of its characters; a *)
(* source or input name is the sequence of its pieces between "-".         *)

MaxChars == 3

MaxInputs == 3

\* the characters of a triangle index string
Chars == {"0", "2", " ", "a", "-"}

Digits == {"0", "1", "2", "3", "4", "5", "6", "7", "8", "9"}

DigitValue(ch) ==
    CASE ch = "0" -> 0 [] ch = "1" -> 1 [] ch = "2" -> 2 [] ch = "3" -> 3
      [] ch = "4" -> 4 [] ch = "5" -> 5 [] ch = "6" -> 6 [] ch = "7" -> 7
      [] ch = "8" -> 8 [] ch = "9" -> 9

SetMin(S) == CHOOSE x \in S : \A y \in S : x <= y

SetMax(S) == CHOOSE x \in S : \A y \in S : y <= x

\* strings.TrimSpace: the string without its leading and trailing spaces
TrimSpace(s) ==
    LET solid == {i \in 1..Len(s) : s[i] # " "}
    IN  IF solid = {} THEN <<>> ELSE SubSeq(s, SetMin(solid), SetMax(solid))

\* the position of the k-th separator of s, 0 before the first and
\* Len(s) + 1 after the last
SepAt(s, sep, k) ==
    LET seps == {i \in 1..Len(s) : s[i] = sep}
    IN  IF k = 0 THEN 0
        ELSE IF k > Cardinality(seps) THEN Len(s) + 1
        ELSE CHOOSE i \in seps : Cardinality({j \in seps : j < i}) = k - 1

\* strings.Split(s, sep): the pieces of s between the separators, empty
\* pieces included; one empty piece for the empty string
Split(s, sep) ==
    [k \in 1..(Cardinality({i \in 1..Len(s) : s[i] = sep}) + 1) |->
        SubSeq(s, SepAt(s, sep, k - 1) + 1, SepAt(s, sep, k) - 1)]

\* the value of a string of digits in a base
RECURSIVE DigitsValue(_, _)
DigitsValue(ds, base) ==
    IF ds = <<>> THEN 0
    ELSE DigitsValue(SubSeq(ds, 1, Len(ds) - 1), base) * base + DigitValue(ds[Len(ds)])

\* the digits of an unsigned literal are valid in its base
ValidDigits(ds, base) ==
    /\ ds # <<>>
    /\ \A i \in 1..Len(ds) : ds[i] \in Digits /\ DigitValue(ds[i]) < base

\* strconv.ParseInt(t, 0, 32) of an unsigned literal: base 8 after a
\* leading "0", base 10 otherwise
ParseUint(ds) ==
    LET octal == Len(ds) > 1 /\ ds[1] = "0"
        base == IF octal THEN 8 ELSE 10
        body == IF octal THEN SubSeq(ds, 2, Len(ds)) ELSE ds
    IN  IF ValidDigits(body, base) /\ DigitsValue(body, base) <= 2147483647
        THEN [err |-> FALSE, val |-> DigitsValue(body, base)]
        ELSE [err |-> TRUE, val |-> 0]

\* strconv.ParseInt(t, 0, 32): an optional sign and an unsigned literal
ParseInt(t) ==
    IF t # <<>> /\ t[1] = "-"
    THEN LET u == ParseUint(SubSeq(t, 2, Len(t)))
         IN [err |-> u.err, val |-> -u.val]
    ELSE ParseUint(t)

\* the attribute a piece of a name stands for: strings.Contains on the
\* lower-cased piece, in the order of the tests
PieceName(piece) ==
    CASE piece \in {"colors", "Color", "colormap"} -> "color"
      [] piece \in {"positions", "vertices", "POSITION"} -> "vertex"
      [] piece \in {"normals", "Normal"} -> "normal"
      [] piece \in {"map", "uvmap"} -> "uv"
      [] OTHER -> ""

\* parseDAESourceName: the attribute of the last piece that names one
parseDAESourceName(sourceName) ==
    LET named == {i \in 1..Len(sourceName) : PieceName(sourceName[i]) # ""}
    IN  IF named = {} THEN "" ELSE PieceName(sourceName[SetMax(named)])

\* daeSource.Parse: one float per field of the float array; a source is
\* kept as its ID and the number of its fields (at least one)
Parse(source) == source.Floats

\* sourceData after the loop over geo.Sources: the number of floats under
\* each name, 0 for a name with no source (a nil slice)
SourceData(sources) ==
    [name \in {"vertex", "normal", "uv", "color"} |->
        LET of == {i \in 1..Len(sources) : parseDAESourceName(sources[i].ID) = name}
        IN  IF of = {} THEN 0 ELSE Parse(sources[SetMax(of)])]

\* one pass of the insertion sort of sort.Slice: while less(j, j-1), which
\* reads the Offsets of geo.TriangleInputs at j and j-1, swap j and j-1
InsertionPass(order, inputs, i) ==
    LET stop == SetMax({1} \cup {j \in 2..i : ~(inputs[j].Offset < inputs[j - 1].Offset)})
    IN  [k \in 1..Len(order) |->
            IF k < stop \/ k > i THEN order[k]
            ELSE IF k = stop THEN order[i]
            ELSE order[k - 1]]

\* sort.Slice(triangleOrder, less) on a slice of at most 12 elements
RECURSIVE InsertionSort(_, _, _)
InsertionSort(order, inputs, i) ==
    IF i > Len(order) THEN order
    ELSE InsertionSort(InsertionPass(order, inputs, i), inputs, i + 1)

\* triangleOrder: the names of the inputs as declared, then sorted
TriangleOrder(inputs) ==
    InsertionSort([k \in 1..Len(inputs) |-> parseDAESourceName(inputs[k].Source)],
                  inputs, 2)

\* the floats read per index of an attribute
Stride(name) ==
    CASE name = "vertex" -> 3 [] name = "uv" -> 2 [] name = "color" -> 4
      [] name = "normal" -> 3 [] OTHER -> 0

\* the reads sourceData[name][tv*stride .. tv*stride + stride - 1] are in
\* range; a name with no case in the switch reads nothing
InRange(sourceData, name, tv) ==
    \/ Stride(name) = 0
    \/ tv >= 0 /\ tv * Stride(name) + Stride(name) - 1 < sourceData[name]

\* the sources of a geometry as Blender names them, and one more that
\* parseDAESourceName does not know
FullSources ==
    << [ID |-> <<"Cube", "mesh", "positions">>, Floats |-> 9],
       [ID |-> <<"Cube", "mesh", "normals">>, Floats |-> 3],
       [ID |-> <<"Cube", "mesh", "map", "0">>, Floats |-> 4],
       [ID |-> <<"Cube", "mesh", "colors", "Col">>, Floats |-> 4],
       [ID |-> <<"Cube", "mesh", "tangents">>, Floats |-> 3] >>

SourceLists == {FullSources, <<>>}

\* the triangle inputs of a geometry, each with the offset of its indices
DeclaredInputs ==
    << [Source |-> <<"#Cube", "mesh", "vertices">>, Offset |-> 0],
       [Source |-> <<"#Cube", "mesh", "normals">>, Offset |-> 1],
       [Source |-> <<"#Cube", "mesh", "map", "0">>, Offset |-> 2],
       [Source |-> <<"#Cube", "mesh", "colors", "Col">>, Offset |-> 3] >>

\* the first n inputs, n up to MaxInputs, declared in every order
InputLists ==
    UNION {Perms({DeclaredInputs[k] : k \in 1..n}) :
              n \in 0..Min(MaxInputs, Len(DeclaredInputs))}

LongStrings ==
    { <<"0", " ", "0", " ", "0">>,
      <<"0", " ", "0", " ", "0", " ", "0", " ", "0", " ", "0">>,
      <<"2", " ", "0", " ", "0", " ", "1", "0">> }

TriangleStrings == UNION {[1..k -> Chars] : k \in 0..MaxChars} \cup LongStrings

Geometry(name, sources, string, inputs) ==
    [Name |-> name, Sources |-> sources, TriangleString |-> string,
     TriangleInputs |-> inputs]

Geometries(name) ==
    {Geometry(name, sources, string, inputs) :
        sources \in SourceLists, string \in TriangleStrings, inputs \in InputLists}

FewGeometries(name) ==
    {Geometry(name, FullSources, string, SubSeq(DeclaredInputs, 1, n)) :
        string \in {<<"0">>, <<"0", " ", "0">>, <<"a">>, <<"2">>}, n \in 0..2}

\* a file: whether xml.Unmarshal accepts it, and its geometries
File(wellFormed, geometries) == [WellFormed |-> wellFormed, Geometries |-> geometries]

Files ==
    {File(FALSE, <<>>), File(TRUE, <<>>)}
    \cup {File(TRUE, <<geo>>) : geo \in Geometries("Cube")}
    \cup {File(TRUE, <<geo, next>>) :
             geo \in FewGeometries("Cube"), next \in FewGeometries("Plane")}

\* map[string]*Mesh, a mesh kept as the number of its vertices
NoMeshes == [isNil |-> FALSE, of |-> <<>>]

NilMeshes == [isNil |-> TRUE, of |-> <<>>]

\* no call of the loader in progress
DaeIdle ==
    [pc |-> "idle", file |-> File(TRUE, <<>>), geo |-> 0,
     sourceData |-> SourceData(<<>>), triangleOrder |-> <<>>,
     triangleIndices |-> <<>>, i |-> 0, reads |-> <<>>, verts |-> 0,
     meshes |-> NoMeshes, err |-> "", panic |-> ""]

----------------------------------------------------------------------------
(* State: capsules maps the address of each capsule made so far to the     *)
(* object; ret is the last call and what it returned.                      *)

Call(op, self, args, out) ==
    [op |-> op, self |-> self, args |-> args,
     panic |-> out.panic, routine |-> out.routine, val |-> out.val]

Returned(val) == Outcome(FALSE, "", val)

NoCall == Call("none", 0, <<>>, Returned(<<>>))

\* the caller is between two calls: the last result has been taken
Idle == ret.op = "none"

Init ==
    /\ capsules = <<>>
    /\ ret = NoCall
    /\ dae = DaeIdle

CallNewBoundingCapsule(id, height, radius) ==
    /\ Idle
    /\ UNCHANGED dae
    /\ id \notin DOMAIN capsules
    /\ capsules' = (id :> NewBoundingCapsule(height, radius)) @@ capsules
    /\ ret' = Call("NewBoundingCapsule", 0, <<height, radius>>, Returned(id))

CallClone(id, new) ==
    /\ Idle
    /\ UNCHANGED dae
    /\ id \in DOMAIN capsules
    /\ new \notin DOMAIN capsules
    /\ capsules' = (new :> Clone(capsules[id])) @@ capsules
    /\ ret' = Call("Clone", id, <<>>, Returned(new))

\* addChildren(capsule, child): the child is unparented, then parented to
\* the capsule
CallAddChildren(id, child) ==
    /\ Idle
    /\ UNCHANGED dae
    /\ id \in DOMAIN capsules
    /\ child \in DOMAIN capsules
    /\ child # id
    /\ capsules[id].Node.parent # child
    /\ capsules' = [capsules EXCEPT ![child].Node.parent = id]
    /\ ret' = Call("AddChildren", id, <<child>>, Returned(<<>>))

\* node transform updates
SetLocalPosition(id, position) ==
    /\ Idle
    /\ UNCHANGED dae
    /\ id \in DOMAIN capsules
    /\ capsules' = [capsules EXCEPT ![id].Node.pos = position]
    /\ ret' = Call("SetLocalPosition", id, <<position>>, Returned(<<>>))

SetLocalRotation(id, up) ==
    /\ Idle
    /\ UNCHANGED dae
    /\ id \in DOMAIN capsules
    /\ capsules' = [capsules EXCEPT ![id].Node.up = up]
    /\ ret' = Call("SetLocalRotation", id, <<up>>, Returned(<<>>))

SetLocalScale(id, scale) ==
    /\ Idle
    /\ UNCHANGED dae
    /\ id \in DOMAIN capsules
    /\ capsules' = [capsules EXCEPT ![id].Node.scale = scale]
    /\ ret' = Call("SetLocalScale", id, <<scale>>, Returned(<<>>))

CallWorldRadius(id) ==
    /\ Idle
    /\ UNCHANGED dae
    /\ id \in DOMAIN capsules
    /\ ret' = Call("WorldRadius", id, <<>>, Returned(WorldRadius(capsules[id])))
    /\ UNCHANGED capsules

CallColliding(id, other) ==
    /\ Idle
    /\ UNCHANGED dae
    /\ id \in DOMAIN capsules
    /\ other \in CapsuleIds => other \in DOMAIN capsules
    /\ ret' = Call("Colliding", id, <<other>>, Colliding(capsules, id, other))
    /\ UNCHANGED capsules

CallCollision(id, other) ==
    /\ Idle
    /\ UNCHANGED dae
    /\ id \in DOMAIN capsules
    /\ other \in CapsuleIds => other \in DOMAIN capsules
    /\ ret' = Call("Collision", id, <<other>>, Collision(capsules, id, other))
    /\ UNCHANGED capsules

CallCollisionTest(id, d, others) ==
    /\ Idle
    /\ UNCHANGED dae
    /\ id \in DOMAIN capsules
    /\ \A i \in DOMAIN others : others[i] \in CapsuleIds => others[i] \in DOMAIN capsules
    /\ ret' = Call("CollisionTest", id, <<d, others>>,
                   CollisionTest(capsules, id, d[1], d[2], d[3], others))
    /\ UNCHANGED capsules

CallCollisionTestVec(id, d, others) ==
    /\ Idle
    /\ UNCHANGED dae
    /\ id \in DOMAIN capsules
    /\ \A i \in DOMAIN others : others[i] \in CapsuleIds => others[i] \in DOMAIN capsules
    /\ ret' = Call("CollisionTestVec", id, <<d, others>>,
                   CollisionTestVec(capsules, id, d, others))
    /\ UNCHANGED capsules

CallPointInside(id, point) ==
    /\ Idle
    /\ UNCHANGED dae
    /\ id \in DOMAIN capsules
    /\ ret' = Call("PointInside", id, <<point>>,
                   Returned(PointInside(capsules, capsules[id], point)))
    /\ UNCHANGED capsules

CallClosestPoint(id, point) ==
    /\ Idle
    /\ UNCHANGED dae
    /\ id \in DOMAIN capsules
    /\ ret' = Call("ClosestPoint", id, <<point>>,
                   Returned(ClosestPoint(capsules, capsules[id], point)))
    /\ UNCHANGED capsules

CallTop(id) ==
    /\ Idle
    /\ UNCHANGED dae
    /\ id \in DOMAIN capsules
    /\ ret' = Call("Top", id, <<>>, Returned(Top(capsules, capsules[id])))
    /\ UNCHANGED capsules

CallBottom(id) ==
    /\ Idle
    /\ UNCHANGED dae
    /\ id \in DOMAIN capsules
    /\ ret' = Call("Bottom", id, <<>>, Returned(Bottom(capsules, capsules[id])))
    /\ UNCHANGED capsules

\* the call is over: its result is owned by the caller, nothing is kept
Return ==
    /\ ~Idle
    /\ UNCHANGED dae
    /\ ret' = NoCall
    /\ UNCHANGED capsules

\* Spec: every operation, on a capsule and its Clone.  Capsule 1 is made by
\* NewBoundingCapsule and capsule 2 is its Clone; both are then moved,
\* scaled, parented and queried.
Lifecycle ==
    \/ \E h \in FewHeights, r \in FewRadii : CallNewBoundingCapsule(1, h, r)
    \/ CallClone(1, 2)
    \/ \E id, child \in CapsuleIds : CallAddChildren(id, child)
    \/ \E id \in CapsuleIds, p \in Positions : SetLocalPosition(id, p)
    \/ \E id \in CapsuleIds, s \in Scales : SetLocalScale(id, s)

Queries ==
    \/ \E id \in CapsuleIds : CallWorldRadius(id)
    \/ \E id \in CapsuleIds, other \in Objects : CallColliding(id, other)
    \/ \E id \in CapsuleIds, other \in Objects : CallCollision(id, other)
    \/ \E id \in CapsuleIds, p \in FewPoints : CallPointInside(id, p)
    \/ \E id \in CapsuleIds, p \in FewPoints : CallClosestPoint(id, p)
    \/ \E id \in CapsuleIds : CallTop(id)
    \/ \E id \in CapsuleIds : CallBottom(id)
    \/ \E id \in CapsuleIds, d \in Deltas : \E others \in FewLists(id) :
            CallCollisionTest(id, d, others)
    \/ \E id \in CapsuleIds, d \in Deltas : \E others \in FewLists(id) :
            CallCollisionTestVec(id, d, others)

Next ==
    \/ Lifecycle
    \/ Queries
    \/ Return

Spec == Init /\ [][Next]_vars

\* SpecShape: one capsule of every height, radius, position, rotation and
\* scale, and its accessors and pairwise tests
NextShape ==
    \/ \E h \in Heights, r \in Radii : CallNewBoundingCapsule(1, h, r)
    \/ \E p \in Positions : SetLocalPosition(1, p)
    \/ \E u \in Ups : SetLocalRotation(1, u)
    \/ \E s \in Scales : SetLocalScale(1, s)
    \/ CallWorldRadius(1)
    \/ \E other \in Objects \ {2} : CallColliding(1, other)
    \/ \E other \in Objects \ {2} : CallCollision(1, other)
    \/ \E p \in Points : CallPointInside(1, p)
    \/ \E p \in Points : CallClosestPoint(1, p)
    \/ CallTop(1)
    \/ CallBottom(1)
    \/ Return

SpecShape == Init /\ [][NextShape]_vars

\* SpecSweep: the sweep queries of one capsule, over every candidate list
NextSweep ==
    \/ \E h \in Heights, r \in Radii : CallNewBoundingCapsule(1, h, r)
    \/ \E p \in Positions : SetLocalPosition(1, p)
    \/ \E u \in Ups : SetLocalRotation(1, u)
    \/ \E s \in Scales : SetLocalScale(1, s)
    \/ \E d \in SweepDeltas, others \in OthersLists(1) : CallCollisionTest(1, d, others)
    \/ \E d \in SweepDeltas, others \in OthersLists(1) : CallCollisionTestVec(1, d, others)
    \/ Return

SpecSweep == Init /\ [][NextSweep]_vars

----------------------------------------------------------------------------
(* LoadMeshesFromDAEData, a step at a time: dae.pc is the position of the  *)
(* call, dae.geo the geometry of the range loop, dae.i the index of the    *)
(* loop over triangleIndices.                                              *)

\* return meshes, err
DaeReturn(d, meshes, err) == [d EXCEPT !.pc = "returned", !.meshes = meshes, !.err = err]

\* a run-time panic ends the call
DaePanic(d, what) == [d EXCEPT !.pc = "panicked", !.panic = what]

\* lines 86-96: xml.Unmarshal, then the first geometry or the return
CallLoadMeshesFromDAEData(file) ==
    /\ dae.pc = "idle"
    /\ dae' = IF ~file.WellFormed
              THEN DaeReturn([DaeIdle EXCEPT !.file = file], NoMeshes, "xml")
              ELSE IF file.Geometries = <<>>
              THEN DaeReturn([DaeIdle EXCEPT !.file = file], NoMeshes, "")
              ELSE [DaeIdle EXCEPT !.file = file, !.pc = "sources", !.geo = 1]
    /\ UNCHANGED <<capsules, ret>>

\* lines 98-108: sourceData
ReadSources ==
    /\ dae.pc = "sources"
    /\ dae' = [dae EXCEPT !.pc = "order",
                          !.sourceData = SourceData(dae.file.Geometries[dae.geo].Sources)]
    /\ UNCHANGED <<capsules, ret>>

\* lines 112-116: triangleOrder and its sort
SortTriangleOrder ==
    /\ dae.pc = "order"
    /\ dae' = [dae EXCEPT !.pc = "indices",
                          !.triangleOrder =
                              TriangleOrder(dae.file.Geometries[dae.geo].TriangleInputs)]
    /\ UNCHANGED <<capsules, ret>>

\* lines 118-138: triangleIndices; the first token that is no integer
\* returns nil and the error
ParseTriangleIndices ==
    /\ dae.pc = "indices"
    /\ LET tokens == Split(TrimSpace(dae.file.Geometries[dae.geo].TriangleString), " ")
       IN  dae' = IF \E k \in 1..Len(tokens) : ParseInt(tokens[k]).err
                  THEN DaeReturn(dae, NilMeshes, "syntax")
                  ELSE [dae EXCEPT !.pc = "loop", !.i = 0, !.verts = 0, !.reads = <<>>,
                                   !.triangleIndices =
                                       [k \in 1..Len(tokens) |-> ParseInt(tokens[k]).val]]
    /\ UNCHANGED <<capsules, ret>>

\* lines 140-186: one iteration of the loop over triangleIndices
ReadIndex ==
    /\ dae.pc = "loop"
    /\ dae.i < Len(dae.triangleIndices)
    /\ LET n == Len(dae.triangleOrder)
           tv == dae.triangleIndices[dae.i + 1]
       IN  dae' = IF n = 0
                  THEN DaePanic(dae, "integer divide by zero")
                  ELSE IF ~InRange(dae.sourceData, dae.triangleOrder[(dae.i % n) + 1], tv)
                  THEN DaePanic(dae, "index out of range")
                  ELSE [dae EXCEPT
                          !.reads = Append(@, [i |-> dae.i,
                                               name |-> dae.triangleOrder[(dae.i % n) + 1]]),
                          !.verts = IF dae.i % n = n - 1 THEN @ + 1 ELSE @,
                          !.i = @ + 1]
    /\ UNCHANGED <<capsules, ret>>

\* lines 188-215: the mesh of the geometry, then the next geometry or the
\* return
StoreMesh ==
    /\ dae.pc = "loop"
    /\ dae.i = Len(dae.triangleIndices)
    /\ LET meshes == [isNil |-> FALSE,
                      of |-> (dae.file.Geometries[dae.geo].Name :> dae.verts)
                                @@ dae.meshes.of]
       IN  dae' = IF dae.geo < Len(dae.file.Geometries)
                  THEN [dae EXCEPT !.pc = "sources", !.geo = @ + 1, !.meshes = meshes]
                  ELSE DaeReturn(dae, meshes, "")
    /\ UNCHANGED <<capsules, ret>>

\* the caller takes the result
DaeDone ==
    /\ dae.pc = "returned"
    /\ dae' = DaeIdle
    /\ UNCHANGED <<capsules, ret>>

NextDAE ==
    \/ \E file \in Files : CallLoadMeshesFromDAEData(file)
    \/ ReadSources
    \/ SortTriangleOrder
    \/ ParseTriangleIndices
    \/ ReadIndex
    \/ StoreMesh
    \/ DaeDone

\* SpecDAE: the loader on every file
SpecDAE == Init /\ [][NextDAE]_vars

----------------------------------------------------------------------------
(* Properties *)

KnownTypes == {"BoundingCapsule", "BoundingSphere", "BoundingAABB", "BoundingTriangles"}

Neg3(a, b) == a[1] = -b[1] /\ a[2] = -b[2] /\ a[3] = -b[3]

MaxAbs(v) == Max(Max(Abs(v[1]), Abs(v[2])), Abs(v[3]))

\* C1: a capsule never collides with itself: Collision(self) returns nil and
\* Colliding(self) returns false, without panicking and without running a
\* pairwise routine, whatever the capsule's geometry.
NoSelfCollision ==
    (ret.op \in {"Collision", "Colliding"} /\ ret.args[1] = ret.self) =>
        /\ ~ret.panic
        /\ ret.routine = ""
        /\ ret.op = "Collision" => ret.val = NilCollision
        /\ ret.op = "Colliding" => ret.val = FALSE

\* Collision(self) has returned for a capsule of positive radius whose Clone,
\* at the same place, it does collide with
NoSelfCollisionWitness ==
    /\ ret.op = "Collision"
    /\ ret.self = 1
    /\ ret.args[1] = 1
    /\ 2 \in DOMAIN capsules
    /\ capsules[1].Radius > 0
    /\ WorldPosition(capsules, capsules[1].Node) = WorldPosition(capsules, capsules[2].Node)
    /\ Collision(capsules, 1, 2).val # NilCollision

\* C2: Collision with a partner other than the capsule itself panics exactly
\* when the partner's type is none of the four bounding types (nil
\* included), and otherwise runs the pairwise routine of the partner's type.
ClosedSetDispatch ==
    (ret.op = "Collision" /\ ret.args[1] # ret.self) =>
        LET t == TypeOf(capsules, ret.args[1])
        IN  /\ ret.panic <=> t \notin KnownTypes
            /\ ret.panic => ret.routine = ""
            /\ t = "BoundingCapsule" => ret.routine = "btCapsuleCapsule"
            /\ t = "BoundingSphere" => ret.routine = "btSphereCapsule"
            /\ t = "BoundingAABB" => ret.routine = "btCapsuleAABB"
            /\ t = "BoundingTriangles" => ret.routine = "btCapsuleTriangles"

\* Collision(nil) has panicked
ClosedSetDispatchWitness ==
    /\ ret.op = "Collision"
    /\ ret.args[1] = NilObject
    /\ ret.panic

\* C3: Collision with a sphere is nil exactly when btSphereCapsule(sphere,
\* capsule) is nil; otherwise it has as many Intersections, each with MTV
\* and Normal negated component by component, and CollidedObject the sphere.
CapsuleSphereFlipped ==
    (ret.op = "Collision" /\ TypeOf(capsules, ret.args[1]) = "BoundingSphere") =>
        LET r == btSphereCapsule(capsules, ret.args[1], ret.self)
        IN  /\ ~ret.panic
            /\ ret.val = NilCollision <=> r = NilCollision
            /\ r # NilCollision =>
                /\ ret.val[1].CollidedObject = ret.args[1]
                /\ Len(ret.val[1].Intersections) = Len(r[1].Intersections)
                /\ \A k \in 1..Len(r[1].Intersections) :
                      /\ Neg3(ret.val[1].Intersections[k].MTV, r[1].Intersections[k].MTV)
                      /\ Neg3(ret.val[1].Intersections[k].Normal,
                              r[1].Intersections[k].Normal)

\* Collision with a sphere has returned an Intersection whose MTV and Normal
\* are not zero
CapsuleSphereFlippedWitness ==
    /\ ret.op = "Collision"
    /\ TypeOf(capsules, ret.args[1]) = "BoundingSphere"
    /\ ret.val # NilCollision
    /\ ret.val[1].Intersections[1].MTV # Zero3
    /\ ret.val[1].Intersections[1].Normal # Zero3

\* C4: for a partner of a known type, Colliding returns true exactly when
\* Collision returns a Collision that holds at least one Intersection.
CollidingIffIntersection ==
    (ret.op = "Colliding" /\ TypeOf(capsules, ret.args[1]) \in KnownTypes) =>
        LET c == Collision(capsules, ret.self, ret.args[1])
        IN  /\ ~ret.panic
            /\ ret.val <=> (c.val # NilCollision /\ Len(c.val[1].Intersections) >= 1)

\* Colliding has returned false for a mesh none of whose triangles is within
\* the radius of a capsule of positive world radius
CollidingIffIntersectionWitness ==
    /\ ret.op = "Colliding"
    /\ TypeOf(capsules, ret.args[1]) = "BoundingTriangles"
    /\ WorldRadius(capsules[ret.self]) > 0
    /\ ret.val = FALSE

\* C5: every capsule, made by NewBoundingCapsule or by Clone, has
\* Height >= Radius in every state, and no call changes the Height or the
\* Radius of a capsule.
HeightAtLeastRadiusNow ==
    \A id \in DOMAIN capsules : capsules[id].Height >= capsules[id].Radius

HeightRadiusKept ==
    \A id \in DOMAIN capsules :
        /\ capsules'[id].Height = capsules[id].Height
        /\ capsules'[id].Radius = capsules[id].Radius

HeightAtLeastRadius == []HeightAtLeastRadiusNow /\ [][HeightRadiusKept]_vars

\* a sweep has returned for the Clone of a capsule whose height was clamped
HeightAtLeastRadiusWitness ==
    /\ ret.op = "CollisionTest"
    /\ ret.self = 2
    /\ capsules[2].Height = capsules[2].Radius
    /\ capsules[2].Radius > 0

\* C6: NewBoundingCapsule(height, radius) never fails; it keeps Radius and
\* makes Height the radius when height < radius and the height otherwise.
\* Top and Bottom are the world position plus and minus up * (Height / 2),
\* so Top - Bottom = up * Height.
CapsuleDegeneracy ==
    /\ ret.op = "NewBoundingCapsule" =>
        /\ ~ret.panic
        /\ ret.val \in DOMAIN capsules
        /\ capsules[ret.val].Radius = ret.args[2]
        /\ capsules[ret.val].Height =
              IF ret.args[1] < ret.args[2] THEN ret.args[2] ELSE ret.args[1]
    /\ \A id \in DOMAIN capsules :
        LET c == capsules[id]
            p == WorldPosition(capsules, c.Node)
            up == WorldUp(capsules, c.Node)
        IN  /\ Scale(Top(capsules, c), 2) = Add(Scale(p, 2), Scale(up, c.Height))
            /\ Scale(Bottom(capsules, c), 2) = Sub(Scale(p, 2), Scale(up, c.Height))
            /\ Sub(Top(capsules, c), Bottom(capsules, c)) = Scale(up, c.Height)
            /\ (ret.op = "Top" /\ ret.self = id) => ret.val = Top(capsules, c)
            /\ (ret.op = "Bottom" /\ ret.self = id) => ret.val = Bottom(capsules, c)

\* NewBoundingCapsule has returned a capsule for a height below the radius
CapsuleDegeneracyWitness ==
    /\ ret.op = "NewBoundingCapsule"
    /\ ret.args[1] < ret.args[2]
    /\ capsules[ret.val].Height = ret.args[2]

\* C7: WorldRadius is Radius times the largest |component| of the node's
\* world scale, the scale after the whole parent chain is applied.
WorldRadiusOfWorldScale ==
    ret.op = "WorldRadius" =>
        ret.val = capsules[ret.self].Radius
                    * MaxAbs(WorldScale(capsules, capsules[ret.self].Node))

\* The scenario of C8: Height 4, Radius 1, world position (0,3,0), identity
\* rotation, unit scale
Scenario(id) ==
    /\ id \in DOMAIN capsules
    /\ capsules[id].Height = 4 * One
    /\ capsules[id].Radius = One
    /\ WorldPosition(capsules, capsules[id].Node) = <<0, 3 * One, 0>>
    /\ WorldUp(capsules, capsules[id].Node) = AxisY
    /\ WorldScale(capsules, capsules[id].Node) = <<1, 1, 1>>
    /\ LocalScale(capsules[id].Node) = <<1, 1, 1>>

\* C8 as stated: in the scenario the segment runs from (0,1,0) to (0,5,0),
\* ClosestPoint((0,0,0)) is (0,1,0), at distance 1, and the sphere of radius
\* 1 at the origin (object 3) collides with the capsule.
ScenarioAsStated ==
    \A id \in CapsuleIds : Scenario(id) =>
        /\ lineBottom(capsules, capsules[id]) = <<0, One, 0>>
        /\ lineTop(capsules, capsules[id]) = <<0, 5 * One, 0>>
        /\ ClosestPoint(capsules, capsules[id], Zero3) = <<0, One, 0>>
        /\ Collision(capsules, id, 3).val # NilCollision

\* C8 amended: in the scenario the segment runs from (0,2,0) to (0,4,0),
\* with Bottom (0,1,0) and Top (0,5,0); ClosestPoint((0,0,0)) returns
\* (0,2,0), at distance 2 from the origin; 2 is not below the sum of the
\* radii 2, and Collision and Colliding with the sphere of radius 1 at the
\* origin return nil and false.
ScenarioAsCoded ==
    \A id \in CapsuleIds : Scenario(id) =>
        /\ lineBottom(capsules, capsules[id]) = <<0, 2 * One, 0>>
        /\ lineTop(capsules, capsules[id]) = <<0, 4 * One, 0>>
        /\ Bottom(capsules, capsules[id]) = <<0, One, 0>>
        /\ Top(capsules, capsules[id]) = <<0, 5 * One, 0>>
        /\ (ret.op = "ClosestPoint" /\ ret.self = id /\ ret.args[1] = Zero3) =>
              /\ ret.val = <<0, 2 * One, 0>>
              /\ MagnitudeSq(Sub(ret.val, Zero3)) = (2 * One) * (2 * One)
              /\ ~MagLess(MagnitudeSq(Sub(ret.val, Zero3)),
                          Scene[3].radius + WorldRadius(capsules[id]))
        /\ (ret.op = "Collision" /\ ret.self = id /\ ret.args[1] = 3) =>
              ret.val = NilCollision
        /\ (ret.op = "Colliding" /\ ret.self = id /\ ret.args[1] = 3) =>
              ret.val = FALSE

\* Collision with the sphere at the origin has returned in the scenario
ScenarioWitness ==
    /\ Scenario(1)
    /\ Scene[3].pos = Zero3
    /\ Scene[3].radius = One
    /\ ret.op = "Collision"
    /\ ret.self = 1
    /\ ret.args[1] = 3

IsSweep == ret.op \in {"CollisionTest", "CollisionTestVec"}

\* the capsules with the querying capsule (which has no parent) displaced
\* by the delta of the sweep
SweptCapsules == [capsules EXCEPT ![ret.self].Node.pos = Add(@, ret.args[1])]

\* the outcome of the pairwise test of candidate i at the displaced position
SweptOutcome(i) == Collision(SweptCapsules, ret.self, ret.args[2][i])

\* the candidates that are not the capsule and intersect it there
SweptHits ==
    {i \in DOMAIN ret.args[2] :
        ret.args[2][i] # ret.self /\ SweptOutcome(i).val # NilCollision}

\* squared distance from the capsule's position to a Collision's contact
SweptDistSq(c) ==
    MagnitudeSq(Sub(c.Intersections[1].ContactPoint,
                    WorldPosition(capsules, capsules[ret.self].Node)))

\* C9: a sweep that returns holds exactly the Collisions of the capsule at
\* its displaced position with the candidates, one per intersecting
\* candidate, in ascending order of the distance from the capsule's current
\* position to the contact point; strictly ascending when the distances are
\* pairwise different, whatever the order of the candidates.
SweepOrdering ==
    (IsSweep /\ ~ret.panic) =>
        LET list == ret.val.list
        IN  /\ Len(list) = Cardinality(SweptHits)
            /\ {<<list[k]>> : k \in 1..Len(list)} = {SweptOutcome(i).val : i \in SweptHits}
            /\ \A i, j \in 1..Len(list) :
                  i < j => SweptDistSq(list[i]) <= SweptDistSq(list[j])
            /\ (\A i, j \in 1..Len(list) :
                  i # j => SweptDistSq(list[i]) # SweptDistSq(list[j]))
               => \A i, j \in 1..Len(list) :
                     i < j => SweptDistSq(list[i]) < SweptDistSq(list[j])

\* a sweep with a non-zero delta has returned three Collisions at pairwise
\* different distances, in another order than the candidates were passed
SweepOrderingWitness ==
    /\ IsSweep
    /\ ~ret.panic
    /\ ret.args[1] # Zero3
    /\ Len(ret.val.list) = 3
    /\ Len(ret.args[2]) = 3
    /\ \A i, j \in 1..3 :
          i < j => SweptDistSq(ret.val.list[i]) < SweptDistSq(ret.val.list[j])
    /\ \E i \in 1..3 : ret.val.list[i].CollidedObject # ret.args[2][i]

\* no candidate yields an intersection at the displaced position
NothingHit == SweptHits = {}

\* every candidate is the capsule itself or of one of the four known types
CandidatesKnown ==
    \A i \in DOMAIN ret.args[2] :
        \/ ret.args[2][i] = ret.self
        \/ TypeOf(capsules, ret.args[2][i]) \in KnownTypes

\* C10 as stated: when no candidate yields an intersection at the displaced
\* position, a sweep returns an empty sequence: it does not panic and the
\* slice is not nil.
EmptyResultAsStated ==
    (IsSweep /\ NothingHit) =>
        /\ ~ret.panic
        /\ ~ret.val.isNil
        /\ Len(ret.val.list) = 0

\* C10 amended: when every candidate is the capsule itself or of one of the
\* four known types and none yields an intersection at the displaced
\* position, a sweep returns an empty sequence: it does not panic and the
\* slice is not nil.
EmptyResult ==
    (IsSweep /\ CandidatesKnown /\ NothingHit) =>
        /\ ~ret.panic
        /\ ~ret.val.isNil
        /\ Len(ret.val.list) = 0

\* a sweep of a capsule of positive world radius over two or more candidates
\* other than itself has returned with no Collision
EmptyResultWitness ==
    /\ IsSweep
    /\ CandidatesKnown
    /\ NothingHit
    /\ WorldRadius(capsules[ret.self]) > 0
    /\ Len(ret.args[2]) >= 2
    /\ \A i \in DOMAIN ret.args[2] : ret.args[2][i] # ret.self
    /\ ~ret.val.isNil

\* v lies on the closed segment from a to b (the three points on one line
\* along an axis)
OnSegment(v, a, b) ==
    /\ ~IsNaN(v)
    /\ \A k \in 1..3 : Min(a[k], b[k]) <= v[k] /\ v[k] <= Max(a[k], b[k])

\* the points of the closed segment from a to b
SegmentPoints(a, b) ==
    {<<x, y, z>> : x \in Min(a[1], b[1])..Max(a[1], b[1]),
                   y \in Min(a[2], b[2])..Max(a[2], b[2]),
                   z \in Min(a[3], b[3])..Max(a[3], b[3])}

\* C12: ClosestPoint(p) returns a point of the closed segment between
\* lineBottom() and lineTop() such that no other point of the segment is
\* nearer to p; when the segment has zero length (Height = 2 * Radius) it is
\* that single point, the node's world position.
ClosestPointOnSegment ==
    ret.op = "ClosestPoint" =>
        LET capsule == capsules[ret.self]
            a == lineBottom(capsules, capsule)
            b == lineTop(capsules, capsule)
            p == ret.args[1]
        IN  /\ OnSegment(ret.val, a, b)
            /\ \A q \in SegmentPoints(a, b) :
                  MagnitudeSq(Sub(ret.val, p)) <= MagnitudeSq(Sub(q, p))
            /\ capsule.Height = 2 * capsule.Radius =>
                  ret.val = WorldPosition(capsules, capsule.Node)

\* the signed distance of a point along the up axis from the node's position
AlongUp(capsule, point) ==
    dot(Sub(point, WorldPosition(capsules, capsule.Node)),
        WorldUp(capsules, capsule.Node))

\* the point lies on the up axis through the node's position
OnUpAxis(capsule, point) ==
    point = Add(WorldPosition(capsules, capsule.Node),
                Scale(WorldUp(capsules, capsule.Node), AlongUp(capsule, point)))

\* C13: for a capsule of radius > 0 on a node with unit scale, PointInside
\* is false for Top(), for Bottom() and for every point of the up axis
\* beyond them (|k| >= Height/2), and true for every point of the up axis
\* strictly between them.
PointInsideWithinEnds ==
    (/\ ret.op = "PointInside"
     /\ capsules[ret.self].Radius > 0
     /\ WorldScale(capsules, capsules[ret.self].Node) = <<1, 1, 1>>
     /\ OnUpAxis(capsules[ret.self], ret.args[1]))
    => (ret.val <=> 2 * Abs(AlongUp(capsules[ret.self], ret.args[1]))
                      < capsules[ret.self].Height)

\* C14: for every capsule of radius >= 0, made by NewBoundingCapsule or by
\* Clone, (lineTop() - lineBottom()) . up = Height - 2 * Radius >= 0: the
\* segment runs in the direction of Bottom() to Top().
SegmentNotInverted ==
    \A id \in DOMAIN capsules :
        capsules[id].Radius >= 0 =>
            LET along == dot(Sub(lineTop(capsules, capsules[id]),
                                 lineBottom(capsules, capsules[id])),
                             WorldUp(capsules, capsules[id].Node))
            IN  /\ along = capsules[id].Height - 2 * capsules[id].Radius
                /\ along >= 0


\* the triangle index tokens of a geometry
TokensOf(geo) == Split(TrimSpace(geo.TriangleString), " ")

\* some token of the triangle index string is not an integer (the only
\* token of an empty string is the empty token)
BadToken(geo) == \E k \in 1..Len(TokensOf(geo)) : ParseInt(TokensOf(geo)[k]).err

\* the attribute of the input declared with an offset
NameAtOffset(inputs, offset) ==
    LET at == {j \in 1..Len(inputs) : inputs[j].Offset = offset}
    IN  IF at = {} THEN "" ELSE parseDAESourceName(inputs[SetMin(at)].Source)

\* some index of the stream points past the end of the source array of the
\* attribute it belongs to
PastEnd(geo) ==
    /\ ~BadToken(geo)
    /\ geo.TriangleInputs # <<>>
    /\ \E k \in 1..Len(TokensOf(geo)) :
          ~InRange(SourceData(geo.Sources),
                   NameAtOffset(geo.TriangleInputs, (k - 1) % Len(geo.TriangleInputs)),
                   ParseInt(TokensOf(geo)[k]).val)

\* the call on this file cannot complete
Unloadable(file) ==
    \/ ~file.WellFormed
    \/ \E g \in 1..Len(file.Geometries) :
          \/ BadToken(file.Geometries[g])
          \/ file.Geometries[g].TriangleInputs = <<>>
          \/ PastEnd(file.Geometries[g])

\* C11: LoadMeshesFromDAEData never aborts with a panic; for a file it
\* cannot complete (malformed XML, a token that is no integer, an empty
\* index string, indices but no triangle input, an index past the end of
\* its source array) it returns a non-nil error; it returns a nil error only
\* when every geometry of the file was converted to a Mesh.
LoadFailuresAreErrors ==
    /\ dae.pc # "panicked"
    /\ dae.pc = "returned" =>
          /\ Unloadable(dae.file) => dae.err # ""
          /\ dae.err = "" =>
                /\ ~dae.meshes.isNil
                /\ \A g \in 1..Len(dae.file.Geometries) :
                      dae.file.Geometries[g].Name \in DOMAIN dae.meshes.of

\* the attribute names of the inputs in ascending order of their Offset
NamesByOffset(inputs) ==
    [k \in 1..Len(inputs) |->
        LET at == CHOOSE j \in 1..Len(inputs) :
                      Cardinality({h \in 1..Len(inputs) :
                                      inputs[h].Offset < inputs[j].Offset}) = k - 1
        IN parseDAESourceName(inputs[at].Source)]

\* C15: after the sort step triangleOrder holds the attribute names of the
\* geometry's triangle inputs in ascending order of their Offset, in
\* whatever order the inputs are declared; the index at position i of the
\* stream is read as the attribute whose input Offset is i mod the number
\* of inputs, and one vertex is emitted per complete group of indices.
TriangleOrderByOffset ==
    dae.pc \in {"indices", "loop"} =>
        LET inputs == dae.file.Geometries[dae.geo].TriangleInputs
            n == Len(inputs)
        IN  /\ dae.triangleOrder = NamesByOffset(inputs)
            /\ dae.pc = "loop" =>
                  /\ \A k \in 1..Len(dae.reads) :
                        dae.reads[k].name = NameAtOffset(inputs, dae.reads[k].i % n)
                  /\ n > 0 => dae.verts = dae.i \div n
====
